---- MODULE Spec2Model ----
(***************************************************************************)
(* paps: main() resolves the page geometry, the text is split into shaped  *)
(* lines, output_pages() flows the lines into columns and pages, and the   *)
(* document is written as header, page bodies and trailer.                 *)
(*                                                                         *)
(* Numbers: all page_layout_t fields are C ints in PostScript points.      *)
(* Line heights and the column cursor are in pango units.  The doubles of  *)
(* the source are kept exact as integers over a named denominator:         *)
(*   pt_to_pixel = PtToPixelNum / PtToPixelDen,                            *)
(*   pixel_to_pt = PtToPixelDen / PtToPixelNum.                            *)
(***************************************************************************)
EXTENDS Integers, Sequences, FiniteSets, TLC

VARIABLES pc, opts, nlines, now, page_layout, pango_lines, OUT, ps_pages_string, column_idx, column_y_pos, page_idx, prev_line_link, next_line, num_pages, calls, run_no, prev_OUT, file, text, paragraphs

vars == <<pc, opts, nlines, now, page_layout, pango_lines, OUT, ps_pages_string, column_idx, column_y_pos, page_idx, prev_line_link, next_line, num_pages, calls, run_no, prev_OUT, file, text, paragraphs>>

flow_locals == <<column_idx, column_y_pos, page_idx, prev_line_link, next_line>>

\* the input as read, the text as read_file returns it, and its paragraphs
text_vars == <<file, text, paragraphs>>

(***************************************************************************)
(* Bounds of the model.                                                    *)
(***************************************************************************)
\* longest input, in shaped lines
MaxLines == 3
\* largest --columns value
MaxCols == 3
\* longest input file, in characters
MaxTextLen == 3
\* most lines a paragraph is broken into
MaxParaLines == 2
\* longest input of the runs that are repeated
MaxRerunLines == 2
\* last reading of the wall clock (time(NULL) only moves forward)
MaxClock == 1

(***************************************************************************)
(* Program constants.                                                      *)
(***************************************************************************)
PANGO_SCALE == 1024
PtToPixelNum == 1000
PtToPixelDen == 72
gutter_width_default == 40
header_sep_default == 20
margin_default == 36

PAPER_TYPE_A4 == 0
PAPER_TYPE_US_LETTER == 1
PAPER_TYPE_US_LEGAL == 2

\* paper_sizes[] holds doubles; kept here in hundredths of a point
paper_sizes == <<[width |-> 59528, height |-> 84189], [width |-> 61200, height |-> 79200], [width |-> 61200, height |-> 100800]>>

PANGO_DIRECTION_LTR == "LTR"
PANGO_DIRECTION_RTL == "RTL"

NULL == 0

(***************************************************************************)
(* C arithmetic.                                                           *)
(***************************************************************************)
\* int / int with a non-zero divisor: the quotient is truncated toward zero
CDiv(a, b) == IF a >= 0 THEN (IF b > 0 THEN a \div b ELSE -(a \div (-b))) ELSE (IF b > 0 THEN -((-a) \div b) ELSE (-a) \div (-b))

\* (int) of a double: paper_sizes[i].width assigned to an int
DoubleToInt(hundredths) == CDiv(hundredths, 100)

(***************************************************************************)
(* Geometry: main(), "Page layout".                                        *)
(***************************************************************************)
total_gutter_width(num_columns) == IF num_columns = 1 THEN 0 ELSE gutter_width_default * (num_columns - 1)

\* as column_width_of, but only one gutter is subtracted whatever the column count
column_width_one_gutter(page_width, left_margin, right_margin, num_columns) == CDiv(page_width - left_margin - right_margin - gutter_width_default, num_columns)

\* page_layout.column_width, for num_columns # 0
column_width_of(page_width, left_margin, right_margin, num_columns) == CDiv(page_width - left_margin - right_margin - total_gutter_width(num_columns), num_columns)

column_height_of(page_height, top_margin, header_sep, bottom_margin) == page_height - top_margin - header_sep - bottom_margin

\* the page box after the landscape swap
page_box(o) ==
  LET w == DoubleToInt(paper_sizes[o.paper_type + 1].width)
      h == DoubleToInt(paper_sizes[o.paper_type + 1].height)
  IN  IF o.do_landscape THEN [width |-> h, height |-> w] ELSE [width |-> w, height |-> h]

\* the page_layout_t main() fills in; column_width is passed in because the
\* division that computes it is undefined for num_columns = 0
main_page_layout(o, cw) ==
  LET box == page_box(o)
      sep == IF o.do_draw_header THEN header_sep_default ELSE 0
  IN  [page_width |-> box.width,
       page_height |-> box.height,
       num_columns |-> o.num_columns,
       left_margin |-> o.left_margin,
       right_margin |-> o.right_margin,
       gutter_width |-> gutter_width_default,
       top_margin |-> o.top_margin,
       bottom_margin |-> o.bottom_margin,
       header_ypos |-> o.top_margin,
       header_height |-> 0,
       footer_height |-> 0,
       header_sep |-> sep,
       column_height |-> column_height_of(box.height, o.top_margin, sep, o.bottom_margin),
       column_width |-> cw,
       do_separation_line |-> TRUE,
       do_landscape |-> o.do_landscape,
       do_justify |-> o.do_justify,
       do_tumble |-> TRUE,
       do_duplex |-> TRUE,
       pango_dir |-> IF o.do_rtl THEN PANGO_DIRECTION_RTL ELSE PANGO_DIRECTION_LTR,
       filename |-> "stdin"]

resolved_layout(o) == main_page_layout(o, column_width_of(page_box(o).width, o.left_margin, o.right_margin, o.num_columns))

\* page_layout before main() has assigned it
unset_layout == main_page_layout([paper_type |-> PAPER_TYPE_A4, do_landscape |-> FALSE, num_columns |-> 0, left_margin |-> 0, right_margin |-> 0, top_margin |-> 0, bottom_margin |-> 0, do_draw_header |-> FALSE, do_justify |-> FALSE, do_rtl |-> FALSE], 0)

\* int pango_column_height = column_height * pt_to_pixel * PANGO_SCALE
pango_column_height_of(layout) == CDiv(layout.column_height * PtToPixelNum * PANGO_SCALE, PtToPixelDen)

(***************************************************************************)
(* The shaped lines (LineLink) and what the text-layout engine measures.   *)
(***************************************************************************)
\* the capacity of a default A4 portrait column without header
RefColumn == pango_column_height_of(resolved_layout([paper_type |-> PAPER_TYPE_A4, do_landscape |-> FALSE, num_columns |-> 1, left_margin |-> margin_default, right_margin |-> margin_default, top_margin |-> margin_default, bottom_margin |-> margin_default, do_draw_header |-> FALSE, do_justify |-> FALSE, do_rtl |-> FALSE]))

\* logical_rect.height of a line: a third of a column (three fit without the
\* header, two with it), half a column (two fill a column exactly), taller
\* than a column
LineHeights == {RefColumn \div 3, RefColumn \div 2, RefColumn + 1}

\* logical_rect.width of a line: 72 points
LineWidth == PtToPixelNum * PANGO_SCALE

\* a LineLink; pango_line is the handle of the line, here its place in the text
LineLink(i, h, ff) == [pango_line |-> i, logical_rect |-> [width |-> LineWidth, height |-> h], formfeed |-> ff]

\* every list split_paragraphs_into_lines can return for a text of n lines
LineLists(n) == { [i \in 1..n |-> LineLink(i, f[i][1], f[i][2])] : f \in [1..n -> LineHeights \X BOOLEAN] }

\* the characters of an input file: a letter, the newline, the form feed, and
\* a byte that is not a UTF-8 character
InvalidChar == "?"
Chars == {"a", "\n", "\f", InvalidChar}

\* wc of the scan: g_utf8_get_char, with 0 for an invalid character
NUL == "NUL"
wc_of(c) == IF c = InvalidChar THEN NUL ELSE c

\* read_file on a file that is not empty: "Add a trailing new line if it is
\* missing"
read_file(bytes) == IF bytes[Len(bytes)] # "\n" THEN Append(bytes, "\n") ELSE bytes

\* a Paragraph: text is the index of its first character, layout the
\* PangoLayout made for it
Paragraph(from, length, ff) == [text |-> from, length |-> length, layout |-> [line_count |-> 1], height |-> 0, formfeed |-> ff]

\* the loop of split_text_into_paragraphs from character p on
RECURSIVE scan_text(_, _, _, _)
scan_text(txt, p, last_para, result) ==
  IF p > Len(txt) THEN result
  ELSE LET wc == wc_of(txt[p])
           ends == wc \in {NUL, "\n", "\f"}
           result1 == IF ends THEN Append(result, Paragraph(last_para, p - last_para, wc = "\f")) ELSE result
       IN  IF wc = NUL THEN result1
           ELSE scan_text(txt, p + 1, IF ends THEN p + 1 ELSE last_para, result1)

split_text_into_paragraphs(txt) == scan_text(txt, 1, 1, <<>>)

\* pango_layout_get_line_count: a layout has at least one line, and at most
\* one line per character
LineCounts(length) == {n \in 1..MaxParaLines : n = 1 \/ n <= length}

\* logical_rect.height of a line of text: every line is set in one font, and
\* two lines fill a column
TextLineHeight == RefColumn \div 2

\* as line_formfeed, but every line of a form-feed paragraph is flagged
line_formfeed_every(para, i, para_num_lines) == para.formfeed

\* para->formfeed && i == (para_num_lines - 1)
line_formfeed(para, i, para_num_lines) == para.formfeed /\ i = para_num_lines - 1

\* the LineLinks of paragraph number p; pango_line is the handle of line i of
\* the paragraph's layout
para_lines(para, p) ==
  [j \in 1..para.layout.line_count |->
     [pango_line |-> <<p, j - 1>>,
      logical_rect |-> [width |-> LineWidth, height |-> TextLineHeight],
      formfeed |-> line_formfeed(para, j - 1, para.layout.line_count)]]

\* the loop of split_paragraphs_into_lines from paragraph p on
RECURSIVE lines_from(_, _)
lines_from(paras, p) == IF p > Len(paras) THEN <<>> ELSE para_lines(paras[p], p) \o lines_from(paras, p + 1)

split_paragraphs_into_lines(paras) == lines_from(paras, 1)

\* extents of the three header lines (date, file name, page number) in the
\* header font, <<width, height>> in pango units: 144, 36 and 72 points wide
header_line_extents == << <<2 * LineWidth, LineWidth \div 5>>, <<LineWidth \div 2, LineWidth \div 5>>, <<LineWidth, LineWidth \div 5>> >>

(***************************************************************************)
(* The emitters.  ps_pages_string is the sequence of what was appended.    *)
(* Doubles are kept as numerators: a line's x_pos over XDen, its y_pos     *)
(* over YDen, a header line's x_pos over 2 * YDen.                         *)
(***************************************************************************)
XDen == PtToPixelNum * PANGO_SCALE
YDen == PtToPixelNum

start_page(str, page) == Append(str, [kind |-> "Page", page |-> page])

\* as eject_page, but showpage is written twice
eject_page_twice(str) == str \o <<[kind |-> "showpage"], [kind |-> "showpage"]>>

eject_page(str) == Append(str, [kind |-> "showpage"])

\* the column index eject_column computes with
divider_idx(layout, col) == IF layout.pango_dir = PANGO_DIRECTION_RTL THEN layout.num_columns - col ELSE col

\* 2 * total_gutter
total_gutter2(layout, idx) == IF idx = 1 THEN layout.gutter_width ELSE (2 * idx + 3) * layout.gutter_width

\* as eject_column, but the test of do_separation_line is inverted
eject_column_inverted(str, layout, col) ==
  IF layout.do_separation_line THEN str
  ELSE LET idx == divider_idx(layout, col)
       IN  Append(str, [kind |-> "divider",
                        x2 |-> 2 * (layout.left_margin + layout.column_width * idx) + total_gutter2(layout, idx),
                        y_top |-> layout.page_height - layout.top_margin - layout.header_height - CDiv(layout.header_sep, 2),
                        y_bot |-> layout.bottom_margin - layout.footer_height])

eject_column(str, layout, col) ==
  IF ~layout.do_separation_line THEN str
  ELSE LET idx == divider_idx(layout, col)
       IN  Append(str, [kind |-> "divider",
                        x2 |-> 2 * (layout.left_margin + layout.column_width * idx) + total_gutter2(layout, idx),
                        y_top |-> layout.page_height - layout.top_margin - layout.header_height - CDiv(layout.header_sep, 2),
                        y_bot |-> layout.bottom_margin - layout.footer_height])

\* as line_x_origin, but the right-to-left index is num_columns - col
line_x_reversed(layout, col) ==
  IF layout.pango_dir = PANGO_DIRECTION_RTL
  THEN layout.left_margin + (layout.num_columns - col) * (layout.column_width + layout.gutter_width)
  ELSE layout.left_margin + col * (layout.column_width + layout.gutter_width)

\* x_pos of a column before the right-alignment adjustment

line_x_origin(layout, col) ==
  IF layout.pango_dir = PANGO_DIRECTION_RTL
  THEN layout.left_margin + (layout.num_columns - 1 - col) * (layout.column_width + layout.gutter_width)
  ELSE layout.left_margin + col * (layout.column_width + layout.gutter_width)

\* x_pos * XDen as passed to the renderer
line_x_pos(layout, col, width) ==
  IF layout.pango_dir = PANGO_DIRECTION_RTL
  THEN (line_x_origin(layout, col) + layout.column_width) * XDen - width * PtToPixelDen
  ELSE line_x_origin(layout, col) * XDen

\* y_pos * YDen as passed to the renderer
line_y_pos(layout, column_pos) == (layout.page_height - layout.top_margin - layout.header_sep) * YDen - CDiv(column_pos, PANGO_SCALE) * PtToPixelDen

\* as draw_line_to_page, but a line taller than the column is dropped
draw_line_unless_tall(str, col, column_pos, layout, link) ==
  IF link.logical_rect.height >= pango_column_height_of(layout) THEN str
  ELSE Append(str, [kind |-> "line",
                    x_origin |-> line_x_origin(layout, col),
                    x_pos |-> line_x_pos(layout, col, link.logical_rect.width),
                    y_pos |-> line_y_pos(layout, column_pos),
                    line |-> link.pango_line])

draw_line_to_page(str, col, column_pos, layout, link) ==
  Append(str, [kind |-> "line",
               x_origin |-> line_x_origin(layout, col),
               x_pos |-> line_x_pos(layout, col, link.logical_rect.width),
               y_pos |-> line_y_pos(layout, column_pos),
               line |-> link.pango_line])

\* height = logical_rect.height / PANGO_SCALE * pixel_to_pt / 3.0, as an int
header_height_of(h) == CDiv(CDiv(h, PANGO_SCALE) * PtToPixelDen, PtToPixelNum * 3)

\* width / PANGO_SCALE * pixel_to_pt, times YDen
header_width_pt(w) == CDiv(w, PANGO_SCALE) * PtToPixelDen

\* as header_page_text, but pages are counted from 0
header_page_text_zero_based(page, date) == <<"Page", page - 1>>

\* as header_page_text, but the number printed is the clock reading
header_page_text_clock(page, date) == <<"Page", date>>

\* the text of the right header line: "Page %d"
header_page_text(page, date) == <<"Page", page>>

\* as header_layout, but both heights are written
header_layout_both(is_footer, layout) ==
  LET height == header_height_of(header_line_extents[1][2])
  IN  [layout EXCEPT !.footer_height = height, !.header_height = height]

\* as header_layout, but the test of is_footer is inverted
header_layout_inverted(is_footer, layout) ==
  LET height == header_height_of(header_line_extents[1][2])
  IN  IF is_footer THEN [layout EXCEPT !.header_height = height] ELSE [layout EXCEPT !.footer_height = height]

\* the layout after the composer ran
header_layout(is_footer, layout) ==
  LET height == header_height_of(header_line_extents[1][2])
  IN  IF is_footer THEN [layout EXCEPT !.footer_height = height] ELSE [layout EXCEPT !.header_height = height]

\* what the composer appends: left, center and right line, then the separator
draw_page_header_line_to_page(str, is_footer, layout, page, date) ==
  LET height == header_height_of(header_line_extents[1][2])
      after == header_layout(is_footer, layout)
      y_pos == IF is_footer THEN layout.bottom_margin ELSE layout.page_height - layout.top_margin - height
      left == [kind |-> "header", x_pos |-> layout.left_margin * YDen * 2, y_pos |-> y_pos, text |-> <<"date", date>>]
      center == [kind |-> "header", x_pos |-> layout.page_width * YDen - header_width_pt(header_line_extents[2][1]), y_pos |-> y_pos, text |-> <<"file", layout.filename>>]
      right == [kind |-> "header", x_pos |-> ((layout.page_width - layout.right_margin) * YDen - header_width_pt(header_line_extents[3][1])) * 2, y_pos |-> y_pos, text |-> header_page_text(page, date)]
      sep == [kind |-> "separator",
              x_from |-> layout.left_margin,
              x_to |-> layout.page_width - layout.right_margin,
              line_pos |-> after.page_height - after.top_margin - after.header_height - CDiv(after.header_sep, 2)]
  IN  str \o <<left, center, right, sep>>

\* as bounding_box, but the box is that of the rotated page
bounding_box_rotated(layout) == [width |-> layout.page_width, height |-> layout.page_height]

\* bb_page_width and bb_page_height: "Keep bounding box non-rotated"
bounding_box(layout) ==
  IF layout.page_width > layout.page_height
  THEN [width |-> layout.page_height, height |-> layout.page_width]
  ELSE [width |-> layout.page_width, height |-> layout.page_height]

\* the document header block print_postscript_header writes
print_postscript_header(layout) ==
  LET orientation == layout.page_width > layout.page_height
  IN  [kind |-> "document_header",
       bb_page_width |-> bounding_box(layout).width,
       bb_page_height |-> bounding_box(layout).height,
       orientation |-> IF orientation THEN "Landscape" ELSE "Portrait",
       pagewidth |-> layout.page_width,
       pageheight |-> layout.page_height,
       column_width |-> layout.column_width,
       bodyheight |-> layout.column_height,
       lmarg |-> layout.left_margin,
       ytop |-> layout.page_height - (layout.header_ypos + layout.header_sep),
       do_separation_line |-> layout.do_separation_line,
       do_landscape |-> layout.do_landscape,
       do_tumble |-> layout.do_tumble,
       do_duplex |-> layout.do_duplex,
       numcolumns |-> layout.num_columns]

\* as print_postscript_trailer, but the last page index counted from 0 is declared
print_postscript_trailer_zero_based(pages) == [kind |-> "trailer", pages |-> pages - 1]

print_postscript_trailer(pages) == [kind |-> "trailer", pages |-> pages]

(***************************************************************************)
(* output_pages: the decisions of one loop iteration.                      *)
(***************************************************************************)
\* prev_line_link && prev_line_link->formfeed
prev_formfeed(lines, prev) == prev # NULL /\ lines[prev].formfeed

\* as need_next_column, but a full column alone never forces the move
need_next_column_formfeed_only(y, link, capacity, prev_ff) == prev_ff

\* as need_next_column, but the form feed of the line itself is read
need_next_column_own_formfeed(y, link, capacity, prev_ff) == (y + link.logical_rect.height >= capacity) \/ link.formfeed

\* as need_next_column, but a line that fills the column exactly stays
need_next_column_strict(y, link, capacity, prev_ff) == (y + link.logical_rect.height > capacity) \/ prev_ff

\* "Check if we need to move to next column"
need_next_column(y, link, capacity, prev_ff) == (y + link.logical_rect.height >= capacity) \/ prev_ff

\* as advanced_column_idx, but the column before is taken
advanced_column_idx_back(col) == col - 1

\* as advanced_column_idx, but two columns are skipped
advanced_column_idx_twice(col) == col + 2

\* column_idx++
advanced_column_idx(col) == col + 1

\* as line_column_pos, but the cursor is passed before the line is added
line_column_pos_before(y, link) == y

\* the offset given to draw_line_to_page: column_y_pos + logical_rect.height
line_column_pos(y, link) == y + link.logical_rect.height

\* as page_is_full, but the page is turned one column late
page_is_full_late(col, num_columns) == col > num_columns

\* column_idx == page_layout->num_columns
page_is_full(col, num_columns) == col = num_columns

\* as next_page_idx, but a page number is skipped
next_page_idx_twice(page) == page + 2

\* as next_page_idx, without the increment
next_page_idx_stuck(page) == page

\* page_idx++
next_page_idx(page) == page + 1

\* as turn_page, but the old page is not ejected
turn_page_no_eject(str, page) == start_page(str, next_page_idx(page))

\* eject_page(OUT); page_idx++; start_page(OUT, page_idx)
turn_page(str, page) == start_page(eject_page(str), next_page_idx(page))

(***************************************************************************)
(* The command lines and texts explored.                                   *)
(***************************************************************************)
\* default paper and margins, any column count, header and direction
FlowOpts == [paper_type : {PAPER_TYPE_A4}, do_landscape : {FALSE}, num_columns : 1..MaxCols, left_margin : {margin_default}, right_margin : {margin_default}, top_margin : {margin_default}, bottom_margin : {margin_default}, do_draw_header : BOOLEAN, do_justify : {FALSE}, do_rtl : BOOLEAN]

\* every paper and orientation, column counts down to -1, margins that do
\* and do not fit the page
GeomOpts == [paper_type : {PAPER_TYPE_A4, PAPER_TYPE_US_LETTER, PAPER_TYPE_US_LEGAL}, do_landscape : BOOLEAN, num_columns : (-1)..MaxCols, left_margin : {margin_default, 300}, right_margin : {margin_default, 300}, top_margin : {margin_default, 1100}, bottom_margin : {margin_default}, do_draw_header : BOOLEAN, do_justify : {FALSE}, do_rtl : {FALSE}]

\* two columns on the default page, no header
TextOpts == [paper_type : {PAPER_TYPE_A4}, do_landscape : {FALSE}, num_columns : {2}, left_margin : {margin_default}, right_margin : {margin_default}, top_margin : {margin_default}, bottom_margin : {margin_default}, do_draw_header : {FALSE}, do_justify : {FALSE}, do_rtl : {FALSE}]

\* every input file of up to MaxTextLen characters
Files == UNION {[1..n -> Chars] : n \in 0..MaxTextLen}

\* one or two columns on the default page, with and without header
RerunOpts == [paper_type : {PAPER_TYPE_A4}, do_landscape : {FALSE}, num_columns : {1, 2}, left_margin : {margin_default}, right_margin : {margin_default}, top_margin : {margin_default}, bottom_margin : {margin_default}, do_draw_header : BOOLEAN, do_justify : {FALSE}, do_rtl : {FALSE}]

InitOf(optset, maxlines, files) ==
  /\ pc = "start"
  /\ file \in files
  /\ text = <<>>
  /\ paragraphs = <<>>
  /\ opts \in optset
  /\ nlines \in 0..maxlines
  /\ now = 0
  /\ page_layout = unset_layout
  /\ pango_lines = <<>>
  /\ OUT = <<>>
  /\ ps_pages_string = <<>>
  /\ column_idx = 0
  /\ column_y_pos = 0
  /\ page_idx = 0
  /\ prev_line_link = NULL
  /\ next_line = 1
  /\ num_pages = 1
  /\ calls = <<>>
  /\ run_no = 1
  /\ prev_OUT = <<>>

\* the text is given as its shaped lines, not as a file
InitWith(optset, maxlines) == InitOf(optset, maxlines, {<<>>})

Init == InitWith(FlowOpts, MaxLines)

InitGeom == InitWith(GeomOpts, 1)

InitRerun == InitWith(RerunOpts, MaxRerunLines)

\* the text is given as a file
InitText == InitOf(TextOpts, 0, Files)

(***************************************************************************)
(* main()                                                                  *)
(***************************************************************************)
\* lines 283-342, num_columns # 0
Resolve ==
  /\ pc = "start"
  /\ opts.num_columns # 0
  /\ page_layout' = resolved_layout(opts)
  /\ pc' = "layout"
  /\ UNCHANGED <<text_vars, opts, nlines, now, pango_lines, OUT, ps_pages_string, flow_locals, num_pages, calls, run_no, prev_OUT>>

\* lines 283-342, num_columns = 0: the division of line 332 is undefined;
\* the process is killed by the trap, or the quotient is 0
ResolveDivZero ==
  /\ pc = "start"
  /\ opts.num_columns = 0
  /\ \/ /\ pc' = "crashed"
        /\ UNCHANGED page_layout
     \/ /\ pc' = "layout"
        /\ page_layout' = main_page_layout(opts, 0)
  /\ UNCHANGED <<text_vars, opts, nlines, now, pango_lines, OUT, ps_pages_string, flow_locals, num_pages, calls, run_no, prev_OUT>>

\* lines 354-363: the text is read, split and shaped into a list of lines
Shape ==
  /\ pc = "layout"
  /\ \E list \in LineLists(nlines) : pango_lines' = list
  /\ pc' = "lines"
  /\ UNCHANGED <<text_vars, opts, nlines, now, page_layout, OUT, ps_pages_string, flow_locals, num_pages, calls, run_no, prev_OUT>>

\* line 354: read_file, lines 391-440, on a file that is not empty
ReadFile ==
  /\ pc = "layout"
  /\ file # <<>>
  /\ text' = read_file(file)
  /\ pc' = "text"
  /\ UNCHANGED <<opts, nlines, now, page_layout, pango_lines, OUT, ps_pages_string, flow_locals, num_pages, calls, run_no, prev_OUT, file, paragraphs>>

\* read_file on an empty file: line 433 reads inbuf->str[-1], a byte before
\* the buffer, which is a newline or is not
ReadEmptyFile ==
  /\ pc = "layout"
  /\ file = <<>>
  /\ \/ text' = <<>>
     \/ text' = <<"\n">>
  /\ pc' = "text"
  /\ UNCHANGED <<opts, nlines, now, page_layout, pango_lines, OUT, ps_pages_string, flow_locals, num_pages, calls, run_no, prev_OUT, file, paragraphs>>

\* lines 359-362: split_text_into_paragraphs; the layout of each paragraph
\* breaks its text into as many lines as the column width makes it
SplitText ==
  /\ pc = "text"
  /\ LET paras == split_text_into_paragraphs(text)
     IN  \E counts \in [DOMAIN paras -> 1..MaxParaLines] :
           /\ \A i \in DOMAIN paras : counts[i] \in LineCounts(paras[i].length)
           /\ paragraphs' = [i \in DOMAIN paras |-> [paras[i] EXCEPT !.layout.line_count = counts[i]]]
  /\ pc' = "paragraphs"
  /\ UNCHANGED <<opts, nlines, now, page_layout, pango_lines, OUT, ps_pages_string, flow_locals, num_pages, calls, run_no, prev_OUT, file, text>>

\* line 363: split_paragraphs_into_lines
SplitLines ==
  /\ pc = "paragraphs"
  /\ pango_lines' = split_paragraphs_into_lines(paragraphs)
  /\ pc' = "lines"
  /\ UNCHANGED <<opts, nlines, now, page_layout, OUT, ps_pages_string, flow_locals, num_pages, calls, run_no, prev_OUT, file, text, paragraphs>>

\* lines 365-369
PrintHeader ==
  /\ pc = "lines"
  /\ OUT' = Append(OUT, print_postscript_header(page_layout))
  /\ ps_pages_string' = <<>>
  /\ pc' = "output_pages"
  /\ UNCHANGED <<text_vars, opts, nlines, now, page_layout, pango_lines, flow_locals, num_pages, calls, run_no, prev_OUT>>

\* output_pages, lines 546-555
Enter ==
  /\ pc = "output_pages"
  /\ ps_pages_string' = IF opts.do_draw_header
                        THEN draw_page_header_line_to_page(start_page(ps_pages_string, 1), FALSE, page_layout, 1, now)
                        ELSE start_page(ps_pages_string, 1)
  /\ page_layout' = IF opts.do_draw_header THEN header_layout(FALSE, page_layout) ELSE page_layout
  /\ column_idx' = 0
  /\ column_y_pos' = 0
  /\ page_idx' = 1
  /\ prev_line_link' = NULL
  /\ next_line' = 1
  /\ calls' = calls \o <<[fn |-> "start_page", page_idx |-> 1]>> \o (IF opts.do_draw_header THEN <<[fn |-> "draw_page_header_line_to_page", is_footer |-> FALSE, page |-> 1]>> ELSE <<>>)
  /\ pc' = "loop"
  /\ UNCHANGED <<text_vars, opts, nlines, now, pango_lines, OUT, num_pages, run_no, prev_OUT>>

\* output_pages, lines 557-596: one iteration of the loop
ProcessLine ==
  /\ pc = "loop"
  /\ next_line <= Len(pango_lines)
  /\ LET link == pango_lines[next_line]
         capacity == pango_column_height_of(page_layout)
         move == need_next_column(column_y_pos, link, capacity, prev_formfeed(pango_lines, prev_line_link))
         col1 == IF move THEN advanced_column_idx(column_idx) ELSE column_idx
         y1 == IF move THEN 0 ELSE column_y_pos
         wrap == move /\ page_is_full(col1, page_layout.num_columns)
         col2 == IF wrap THEN 0 ELSE col1
         page2 == IF wrap THEN next_page_idx(page_idx) ELSE page_idx
         header == wrap /\ opts.do_draw_header
         layout2 == IF header THEN header_layout(FALSE, page_layout) ELSE page_layout
         column_pos == line_column_pos(y1, link)
         y2 == y1 + link.logical_rect.height
         str1 == IF wrap THEN turn_page(ps_pages_string, page_idx)
                 ELSE IF move THEN eject_column(ps_pages_string, page_layout, col1)
                 ELSE ps_pages_string
         str2 == IF header THEN draw_page_header_line_to_page(str1, FALSE, page_layout, page2, now) ELSE str1
     IN  /\ ps_pages_string' = draw_line_to_page(str2, col2, column_pos, layout2, link)
         /\ page_layout' = layout2
         /\ column_idx' = col2
         /\ column_y_pos' = y2
         /\ page_idx' = page2
         /\ calls' = calls
                     \o (IF wrap THEN <<[fn |-> "eject_page"], [fn |-> "start_page", page_idx |-> page2]>>
                         ELSE IF move THEN <<[fn |-> "eject_column", column_idx |-> col1]>> ELSE <<>>)
                     \o (IF header THEN <<[fn |-> "draw_page_header_line_to_page", is_footer |-> FALSE, page |-> page2]>> ELSE <<>>)
                     \o <<[fn |-> "draw_line_to_page", column_idx |-> col2, column_pos |-> column_pos, line |-> link.pango_line,
                           page_idx |-> page2, y_entry |-> column_y_pos, y_before |-> y1, moved |-> move]>>
  /\ prev_line_link' = next_line
  /\ next_line' = next_line + 1
  /\ UNCHANGED <<text_vars, pc, opts, nlines, now, pango_lines, OUT, num_pages, run_no, prev_OUT>>

\* output_pages, lines 597-598, and the assignment of line 371
Return ==
  /\ pc = "loop"
  /\ next_line > Len(pango_lines)
  /\ ps_pages_string' = eject_page(ps_pages_string)
  /\ calls' = Append(calls, [fn |-> "eject_page"])
  /\ num_pages' = page_idx
  /\ pc' = "returned"
  /\ UNCHANGED <<text_vars, opts, nlines, now, page_layout, pango_lines, OUT, flow_locals, run_no, prev_OUT>>

\* lines 373-379
Emit ==
  /\ pc = "returned"
  /\ OUT' = OUT \o <<[kind |-> "paps_header"], [kind |-> "EndPrologue"]>> \o ps_pages_string \o <<print_postscript_trailer(num_pages)>>
  /\ pc' = "done"
  /\ UNCHANGED <<text_vars, opts, nlines, now, page_layout, pango_lines, ps_pages_string, flow_locals, num_pages, calls, run_no, prev_OUT>>

\* the program is started again on the same text with the same options;
\* what the first run wrote is kept for comparison
Rerun ==
  /\ pc = "done"
  /\ run_no = 1
  /\ run_no' = 2
  /\ prev_OUT' = OUT
  /\ pc' = "lines"
  /\ page_layout' = [page_layout EXCEPT !.header_height = 0]
  /\ OUT' = <<>>
  /\ ps_pages_string' = <<>>
  /\ calls' = <<>>
  /\ num_pages' = 1
  /\ column_idx' = 0
  /\ column_y_pos' = 0
  /\ page_idx' = 0
  /\ prev_line_link' = NULL
  /\ next_line' = 1
  /\ UNCHANGED <<text_vars, opts, nlines, now, pango_lines>>

\* the wall clock that time(NULL) reads moves on
Tick ==
  /\ now < MaxClock
  /\ now' = now + 1
  /\ UNCHANGED <<text_vars, pc, opts, nlines, page_layout, pango_lines, OUT, ps_pages_string, flow_locals, num_pages, calls, run_no, prev_OUT>>

Next == Resolve \/ Shape \/ PrintHeader \/ Enter \/ ProcessLine \/ Return \/ Emit

NextGeom == Next \/ ResolveDivZero

NextRerun == Next \/ Rerun \/ Tick

NextText == Resolve \/ ReadFile \/ ReadEmptyFile \/ SplitText \/ SplitLines \/ PrintHeader \/ Enter \/ ProcessLine \/ Return \/ Emit

\* one run on the default page
Spec == Init /\ [][Next]_vars

\* one run on every page geometry
SpecGeom == InitGeom /\ [][NextGeom]_vars

\* two runs on the same input
SpecRerun == InitRerun /\ [][NextRerun]_vars

\* one run on every input file
SpecText == InitText /\ [][NextText]_vars

(***************************************************************************)
(* Reading the logs.                                                       *)
(***************************************************************************)
IsPageMark(e) == e.kind \in {"Page", "showpage"}
IsPage(e) == e.kind = "Page"
IsLine(e) == e.kind = "line"
IsPageCall(c) == c.fn \in {"start_page", "eject_page"}
IsDraw(c) == c.fn = "draw_line_to_page"

\* the page marks, the page starts and the placed lines of ps_pages_string
PageMarks == SelectSeq(ps_pages_string, IsPageMark)
PageStarts == SelectSeq(ps_pages_string, IsPage)
PlacedLines == SelectSeq(ps_pages_string, IsLine)
\* the calls of start_page and eject_page, and those of draw_line_to_page
PageCalls == SelectSeq(calls, IsPageCall)
Draws == SelectSeq(calls, IsDraw)

\* output_pages has returned
Returned == pc \in {"returned", "done"}
\* output_pages is running
Running == pc = "loop"
\* main() has assigned page_layout
Resolved == pc \notin {"start", "crashed"}

Capacity == pango_column_height_of(page_layout)
HeightOf(k) == pango_lines[k].logical_rect.height

\* the page a call belongs to: the start_page calls made up to it
PageOfCall(i) == Cardinality({j \in 1..i : calls[j].fn = "start_page"})
\* the eject_column calls made on page p
ColumnAdvances(p) == Cardinality({i \in DOMAIN calls : calls[i].fn = "eject_column" /\ PageOfCall(i) = p})

(***************************************************************************)
(* C1..C10                                                                 *)
(***************************************************************************)

\* C1: start_page and eject_page strictly alternate, beginning with start_page;
\* once output_pages has returned the last one is eject_page, so every page
\* start has its page end, and the returned count is the number of page starts.
C1_Balanced ==
  /\ \A i \in DOMAIN PageMarks : PageMarks[i].kind = (IF i % 2 = 1 THEN "Page" ELSE "showpage")
  /\ \A i \in DOMAIN PageCalls : PageCalls[i].fn = (IF i % 2 = 1 THEN "start_page" ELSE "eject_page")
  /\ Len(PageCalls) = Len(PageMarks)
  /\ Running => Len(PageMarks) % 2 = 1
  /\ Returned => /\ Len(PageMarks) >= 2
                 /\ Len(PageMarks) % 2 = 0
                 /\ num_pages = Len(PageStarts)
                 /\ 2 * num_pages = Len(PageMarks)

\* a run over the longest input that produced several pages has finished
C1_Witness == pc = "done" /\ num_pages >= 3 /\ Len(pango_lines) = MaxLines

\* C2: the page indices given to start_page are 1, 2, ..., N in that order,
\* N being the returned page count.
C2_PageIndices ==
  /\ \A i \in DOMAIN PageStarts : PageStarts[i].page = i
  /\ Running => page_idx = Len(PageStarts)
  /\ Returned => Len(PageStarts) = num_pages

C2_Witness == pc = "returned" /\ num_pages >= 3 /\ PageStarts[3].page = 3

\* C3: no line is split: a line either fits below the cursor
\* (cursor + height <= capacity) or is the first line of its column.
C3_NoSplit ==
  \A k \in DOMAIN Draws : \/ Draws[k].y_before + HeightOf(Draws[k].line) <= Capacity
                          \/ Draws[k].y_before = 0

\* one line was placed below another, and a line taller than the column was placed
C3_Witness ==
  /\ \E k \in DOMAIN Draws : Draws[k].y_before > 0 /\ Draws[k].y_before + HeightOf(Draws[k].line) < Capacity
  /\ \E k \in DOMAIN Draws : Draws[k].y_before = 0 /\ HeightOf(Draws[k].line) > Capacity

\* the column position after (page, col)
NextColumn(page, col) == IF col = page_layout.num_columns - 1 THEN <<page + 1, 0>> ELSE <<page, col + 1>>

\* C4: a line carrying the form feed is itself placed by the rule of every
\* line (overflow, or the form feed of the line before it); the line after it
\* is the first line of the next column, or of column 0 of the next page.
C4_FormFeedDeferred ==
  \A k \in DOMAIN Draws :
    /\ pango_lines[k].formfeed =>
         (Draws[k].moved <=> (Draws[k].y_entry + HeightOf(k) >= Capacity \/ (k > 1 /\ pango_lines[k - 1].formfeed)))
    /\ (k > 1 /\ pango_lines[k - 1].formfeed) =>
         /\ Draws[k].y_before = 0
         /\ <<Draws[k].page_idx, Draws[k].column_idx>> = NextColumn(Draws[k - 1].page_idx, Draws[k - 1].column_idx)

\* a form-feed line was placed without a move, below another line, and the
\* line after it moved although it would have fitted
C4_Witness ==
  \E k \in DOMAIN Draws :
    /\ k > 1
    /\ pango_lines[k - 1].formfeed
    /\ ~Draws[k - 1].moved
    /\ Draws[k - 1].y_entry > 0
    /\ Draws[k].y_entry + HeightOf(k) < Capacity
    /\ Draws[k].y_before = 0

\* C5: every line is placed in a column 0 <= column_idx < num_columns, and no
\* page has more than num_columns - 1 column advances.
C5_ColumnsInRange ==
  /\ \A k \in DOMAIN Draws : 0 <= Draws[k].column_idx /\ Draws[k].column_idx < page_layout.num_columns
  /\ \A i \in DOMAIN calls : calls[i].fn = "eject_column" => ColumnAdvances(PageOfCall(i)) <= page_layout.num_columns - 1
  /\ Running => 0 <= column_idx /\ column_idx < page_layout.num_columns

\* a page of several columns was filled to its last column and the page turned
C5_Witness ==
  /\ page_layout.num_columns >= 2
  /\ ColumnAdvances(1) = page_layout.num_columns - 1
  /\ \E k \in DOMAIN Draws : Draws[k].page_idx = 2

\* C6: every input line is given to draw_line_to_page once, in input order,
\* whatever its height, and the loop ends after one iteration per line.
C6_EveryLineOnce ==
  /\ \A k \in DOMAIN Draws : Draws[k].line = k
  /\ \A k \in DOMAIN PlacedLines : PlacedLines[k].line = pango_lines[k].pango_line
  /\ Len(PlacedLines) = Len(Draws)
  /\ Running => /\ Len(PlacedLines) = next_line - 1
                /\ next_line <= Len(pango_lines) + 1
  /\ Returned => Len(PlacedLines) = Len(pango_lines)

\* a line taller than the column was placed and the lines after it too
C6_Witness ==
  /\ Returned
  /\ Len(pango_lines) = MaxLines
  /\ HeightOf(1) > Capacity
  /\ PlacedLines[MaxLines].line = MaxLines

\* the output with the date of every header line blanked
NoDates(out) == [i \in DOMAIN out |-> IF out[i].kind = "header" /\ out[i].text[1] = "date" THEN [out[i] EXCEPT !.text = <<"date", 0>>] ELSE out[i]]

\* the second run on the same input has finished
SecondRunDone == run_no = 2 /\ pc = "done"

\* C7 as stated: two runs on identical input write identical output, also
\* with the header drawn.
C7_Deterministic == SecondRunDone => OUT = prev_OUT

\* C7 as amended: the two outputs are identical but for the date text of the
\* header lines; they are identical when no header is drawn.
C7_DeterministicButDate ==
  SecondRunDone => /\ NoDates(OUT) = NoDates(prev_OUT)
                   /\ ~opts.do_draw_header => OUT = prev_OUT
                   /\ Len(OUT) = Len(prev_OUT)

\* two runs with header, of several pages, whose outputs differ
C7_Witness == SecondRunDone /\ opts.do_draw_header /\ num_pages >= 2 /\ OUT # prev_OUT

\* the geometry the resolver is to refuse
BadGeometry == opts.num_columns < 1 \/ (Resolved /\ (page_layout.column_width <= 0 \/ page_layout.column_height <= 0))

\* C8: with num_columns < 1, or a column width or height that is zero or
\* negative, nothing is written: no document header, page or trailer.
C8_ConfigError == BadGeometry => (OUT = <<>> /\ ps_pages_string = <<>> /\ pc \in {"start", "layout", "lines", "crashed"})

\* what column_width, the gutters and the side margins add up to
LayoutWidth == page_layout.column_width * page_layout.num_columns + page_layout.gutter_width * (page_layout.num_columns - 1) + page_layout.left_margin + page_layout.right_margin

\* the width left for the columns
ColumnsWidth == page_layout.page_width - page_layout.left_margin - page_layout.right_margin - page_layout.gutter_width * (page_layout.num_columns - 1)

\* C9 as stated: columns, gutters and side margins add up to page_width.
C9_WidthExact == (Resolved /\ page_layout.num_columns >= 1) => LayoutWidth = page_layout.page_width

\* C9 as amended: they add up to page_width less what the integer division
\* dropped, which is less than num_columns; with margins wider than the page
\* the difference has the other sign.
C9_WidthUpToRemainder ==
  (Resolved /\ page_layout.num_columns >= 1) =>
    LET lost == page_layout.page_width - LayoutWidth
    IN  /\ -page_layout.num_columns < lost /\ lost < page_layout.num_columns
        /\ ColumnsWidth >= 0 => lost >= 0
        /\ ColumnsWidth <= 0 => lost <= 0
        /\ page_layout.num_columns = 1 => lost = 0

\* two columns on A4: 595 - 72 - 40 = 483 is odd, one point is lost
C9_Witness == Resolved /\ page_layout.num_columns = 2 /\ page_layout.page_width - LayoutWidth = 1

\* the origin of column c with the writing direction set to dir
OriginIn(dir, c) == line_x_origin([page_layout EXCEPT !.pango_dir = dir], c)

\* C10: right to left, the origin of column c is the left-to-right origin of
\* column num_columns - 1 - c, for the lines placed and for every column of the
\* page; column 0 is the rightmost column and each next column is one column
\* width and gutter further left.
C10_Mirrored ==
  (Resolved /\ page_layout.pango_dir = PANGO_DIRECTION_RTL) =>
    /\ \A k \in DOMAIN PlacedLines : PlacedLines[k].x_origin = OriginIn(PANGO_DIRECTION_LTR, page_layout.num_columns - 1 - Draws[k].column_idx)
    /\ \A c \in 0..(page_layout.num_columns - 1) :
         /\ OriginIn(PANGO_DIRECTION_RTL, c) = OriginIn(PANGO_DIRECTION_LTR, page_layout.num_columns - 1 - c)
         /\ c > 0 => OriginIn(PANGO_DIRECTION_RTL, c) = OriginIn(PANGO_DIRECTION_RTL, c - 1) - (page_layout.column_width + page_layout.gutter_width)
         /\ (c > 0 /\ page_layout.column_width + page_layout.gutter_width > 0) => OriginIn(PANGO_DIRECTION_RTL, c) < OriginIn(PANGO_DIRECTION_RTL, 0)
         /\ page_layout.column_width + page_layout.gutter_width > 0 => OriginIn(PANGO_DIRECTION_RTL, 0) >= OriginIn(PANGO_DIRECTION_LTR, c)

\* right to left on three columns, lines were placed in column 0, 1 and 2
C10_Witness ==
  /\ page_layout.pango_dir = PANGO_DIRECTION_RTL
  /\ page_layout.num_columns = 3
  /\ \A c \in 0..2 : \E k \in DOMAIN Draws : Draws[k].column_idx = c /\ PlacedLines[k].x_origin = OriginIn(PANGO_DIRECTION_LTR, 2 - c)

(***************************************************************************)
(* C11..C20                                                                *)
(***************************************************************************)
IsDocumentHeader(e) == e.kind = "document_header"
IsTrailer(e) == e.kind = "trailer"
IsDivider(e) == e.kind = "divider"
IsSeparator(e) == e.kind = "separator"
IsHeaderLine(e) == e.kind = "header"
IsEjectColumn(c) == c.fn = "eject_column"
IsStartPage(c) == c.fn = "start_page"
IsComposer(c) == c.fn = "draw_page_header_line_to_page"

\* the dividers written, and the eject_column calls that wrote them
Dividers == SelectSeq(ps_pages_string, IsDivider)
EjectColumns == SelectSeq(calls, IsEjectColumn)

\* C11: until the pages are written OUT holds the document header alone; in
\* the finished stream the document header is the first element and the only
\* one of its kind, the pages follow as output_pages built them, with page
\* starts numbered 1, 2, ... and lines in input order, and the trailer is the
\* last element, the only one of its kind, directly after the last showpage,
\* declaring as many pages as there are page starts in the stream.
C11_StreamOrder ==
  /\ pc \in {"start", "layout", "lines"} => OUT = <<>>
  /\ pc \in {"output_pages", "loop", "returned"} => (Len(OUT) = 1 /\ IsDocumentHeader(OUT[1]))
  /\ pc = "done" =>
       /\ IsDocumentHeader(OUT[1])
       /\ \A i \in 2..Len(OUT) : ~IsDocumentHeader(OUT[i])
       /\ IsTrailer(OUT[Len(OUT)])
       /\ \A i \in 1..(Len(OUT) - 1) : ~IsTrailer(OUT[i])
       /\ OUT[Len(OUT) - 1].kind = "showpage"
       /\ SubSeq(OUT, 4, Len(OUT) - 1) = ps_pages_string
       /\ \A i \in 1..3 : ~IsPageMark(OUT[i])
       /\ LET starts == SelectSeq(OUT, IsPage)
              lines == SelectSeq(OUT, IsLine)
          IN  /\ \A i \in DOMAIN starts : starts[i].page = i
              /\ \A k \in DOMAIN lines : lines[k].line = k
              /\ OUT[Len(OUT)].pages = Len(starts)

\* a stream of three pages was finished
C11_Witness == pc = "done" /\ Len(SelectSeq(OUT, IsPage)) = 3 /\ OUT[Len(OUT)].pages = 3

\* C12: left to right, the divider of the advance from column k to column
\* k + 1 lies in the gutter between the two columns, and for k = 0 at its
\* midpoint.  (x2 is twice the x position.)
C12_DividerInGutter ==
  (Resolved /\ page_layout.pango_dir = PANGO_DIRECTION_LTR) =>
    \A i \in DOMAIN Dividers :
      i <= Len(EjectColumns) =>
        LET k == EjectColumns[i].column_idx - 1
            gutter_from == page_layout.left_margin + (k + 1) * page_layout.column_width + k * page_layout.gutter_width
            gutter_to == page_layout.left_margin + (k + 1) * (page_layout.column_width + page_layout.gutter_width)
        IN  /\ 2 * gutter_from <= Dividers[i].x2
            /\ Dividers[i].x2 <= 2 * gutter_to
            /\ k = 0 => Dividers[i].x2 = gutter_from + gutter_to

\* the position of line k, and that of the line before it (the first column
\* of the first page for the first line)
PositionOf(k) == <<Draws[k].page_idx, Draws[k].column_idx>>
PositionBefore(k) == IF k = 1 THEN <<1, 0>> ELSE PositionOf(k - 1)

\* C13: the column is advanced before line k exactly when the cursor plus the
\* line's height reaches the capacity or line k - 1 carried the form feed; a
\* line that fills the column exactly is moved; the first line moves only on
\* overflow; and the position changes exactly when the column is advanced.
C13_AdvanceRule ==
  \A k \in DOMAIN Draws :
    LET would_overflow == Draws[k].y_entry + HeightOf(k) >= Capacity
        forced_break == k > 1 /\ pango_lines[k - 1].formfeed
    IN  /\ Draws[k].moved <=> (would_overflow \/ forced_break)
        /\ Draws[k].y_entry + HeightOf(k) = Capacity => Draws[k].moved
        /\ k = 1 => (Draws[k].moved <=> HeightOf(k) >= Capacity)
        /\ Draws[k].moved <=> PositionOf(k) # PositionBefore(k)

\* a line that fills its column exactly, below another line, was moved
C13_Witness ==
  \E k \in DOMAIN Draws :
    /\ k > 1
    /\ ~pango_lines[k - 1].formfeed
    /\ Draws[k].y_entry > 0
    /\ Draws[k].y_entry + HeightOf(k) = Capacity
    /\ Draws[k].moved

\* C14: line k is placed where line k - 1 was placed or one column position
\* further (the next column of the page, or column 0 of the next page), and
\* every advance is one call of eject_column or of start_page.
C14_NoDoubleAdvance ==
  /\ \A k \in DOMAIN Draws : PositionOf(k) \in {PositionBefore(k), NextColumn(PositionBefore(k)[1], PositionBefore(k)[2])}
  /\ calls # <<>> =>
       Cardinality({i \in DOMAIN calls : IsEjectColumn(calls[i]) \/ IsStartPage(calls[i])})
         = 1 + Cardinality({k \in DOMAIN Draws : Draws[k].moved})

\* a line that overflows its column and follows a form-feed line was placed
\* one column position further
C14_Witness ==
  \E k \in DOMAIN Draws :
    /\ k > 1
    /\ pango_lines[k - 1].formfeed
    /\ Draws[k].y_entry + HeightOf(k) >= Capacity
    /\ PositionOf(k) = NextColumn(PositionBefore(k)[1], PositionBefore(k)[2])
    /\ page_layout.num_columns >= 2

\* the heights of the lines 1..j placed where line k was placed
RECURSIVE HeightsAt(_, _)
HeightsAt(k, j) == IF j = 0 THEN 0 ELSE HeightsAt(k, j - 1) + (IF PositionOf(j) = PositionOf(k) THEN HeightOf(j) ELSE 0)

\* C15: the offset given to draw_line_to_page for line k is the sum of the
\* heights of the lines placed so far in its column of its page, line k
\* included, and the renderer's y_pos is computed from it; the cursor is 0
\* after an advance, else what the line before left, and after the line it is
\* the offset just passed.
C15_CumulativeOffset ==
  /\ \A k \in DOMAIN Draws :
       /\ Draws[k].column_pos = HeightsAt(k, k)
       /\ PlacedLines[k].y_pos = line_y_pos(page_layout, HeightsAt(k, k))
       /\ Draws[k].y_before = (IF Draws[k].moved THEN 0 ELSE Draws[k].y_entry)
       /\ Draws[k].y_entry = (IF k = 1 THEN 0 ELSE Draws[k - 1].column_pos)
       /\ Draws[k].column_pos = Draws[k].y_before + HeightOf(k)
  /\ Running => column_y_pos = (IF Draws = <<>> THEN 0 ELSE Draws[Len(Draws)].column_pos)

\* a line was stacked on the line before it, and a later line started a
\* column again from 0
C15_Witness ==
  /\ Len(Draws) = MaxLines
  /\ \E k \in DOMAIN Draws : k >= 2 /\ ~Draws[k].moved /\ Draws[k].column_pos = HeightOf(k - 1) + HeightOf(k)
  /\ \E k \in DOMAIN Draws : k >= 2 /\ Draws[k].moved /\ Draws[k].column_pos = HeightOf(k)

\* C16: with the header on, every page start is followed at once by the
\* three header lines (date, file name, that page's number) and the
\* separator, every start_page call by one composer call for that page, and
\* there are no others; with the header off there is no header line, no
\* separator and no composer call.
C16_HeaderPerPage ==
  Resolved =>
    IF opts.do_draw_header
    THEN /\ \A i \in DOMAIN ps_pages_string :
              IsPage(ps_pages_string[i]) =>
                /\ i + 4 <= Len(ps_pages_string)
                /\ \A j \in 1..3 : IsHeaderLine(ps_pages_string[i + j])
                /\ ps_pages_string[i + 1].text[1] = "date"
                /\ ps_pages_string[i + 2].text[1] = "file"
                /\ ps_pages_string[i + 3].text = <<"Page", ps_pages_string[i].page>>
                /\ IsSeparator(ps_pages_string[i + 4])
         /\ Len(SelectSeq(ps_pages_string, IsHeaderLine)) = 3 * Len(PageStarts)
         /\ Len(SelectSeq(ps_pages_string, IsSeparator)) = Len(PageStarts)
         /\ \A i \in DOMAIN calls :
              IsStartPage(calls[i]) =>
                /\ i < Len(calls)
                /\ IsComposer(calls[i + 1])
                /\ calls[i + 1].page = calls[i].page_idx
                /\ ~calls[i + 1].is_footer
         /\ Len(SelectSeq(calls, IsComposer)) = Len(SelectSeq(calls, IsStartPage))
    ELSE /\ \A i \in DOMAIN ps_pages_string : ~IsHeaderLine(ps_pages_string[i]) /\ ~IsSeparator(ps_pages_string[i])
         /\ \A i \in DOMAIN calls : ~IsComposer(calls[i])

\* three pages with header were written, the third made after a page turn
C16_Witness ==
  /\ opts.do_draw_header
  /\ Len(PageStarts) = 3
  /\ \E i \in DOMAIN ps_pages_string :
       /\ IsPage(ps_pages_string[i])
       /\ ps_pages_string[i].page = 3
       /\ ps_pages_string[i + 3].text = <<"Page", 3>>

\* header_height as the page's geometry must see it
HeaderHeight == IF opts.do_draw_header THEN header_height_of(header_line_extents[1][2]) ELSE 0
\* y of the header separator and of the top of a divider
SeparatorY == page_layout.page_height - page_layout.top_margin - HeaderHeight - CDiv(page_layout.header_sep, 2)

\* C17: header_height is 0 until the first page's composer call and the
\* height of the header from then on (always 0 without the header); every
\* separator and every divider is drawn at the y that this height gives, and
\* with the header on a divider comes after the composer call and the
\* separator of its own page.
C17_HeaderHeightFirst ==
  Resolved =>
    /\ page_layout.header_height = (IF pc \in {"loop", "returned", "done"} THEN HeaderHeight ELSE 0)
    /\ page_layout.footer_height = 0
    /\ \A i \in DOMAIN ps_pages_string :
         /\ IsSeparator(ps_pages_string[i]) => ps_pages_string[i].line_pos = SeparatorY
         /\ IsDivider(ps_pages_string[i]) =>
              /\ ps_pages_string[i].y_top = SeparatorY
              /\ opts.do_draw_header =>
                   \E j \in 1..(i - 1) : IsSeparator(ps_pages_string[j]) /\ \A m \in j..i : ~IsPage(ps_pages_string[m])
    /\ \A i \in DOMAIN calls :
         (IsEjectColumn(calls[i]) /\ opts.do_draw_header) =>
           \E j \in 1..(i - 1) : IsComposer(calls[j]) /\ calls[j].page = PageOfCall(i)

\* with the header on, a divider was drawn on the second page
C17_Witness ==
  /\ opts.do_draw_header
  /\ HeaderHeight > 0
  /\ \E i \in DOMAIN calls : IsEjectColumn(calls[i]) /\ PageOfCall(i) = 2
  /\ \E i \in DOMAIN ps_pages_string : IsDivider(ps_pages_string[i]) /\ ps_pages_string[i].y_top = SeparatorY

\* the column in which the line before the one drawn by call j was placed
ColumnLeftAt(j) == PositionBefore(calls[j].line)[2]

\* C18 as stated: the eject_column call of an advance within the page carries
\* the index of the column just finished.
C18_OldColumnIndex ==
  \A i \in DOMAIN calls : IsEjectColumn(calls[i]) => calls[i].column_idx = ColumnLeftAt(i + 1)

\* C18: on an advance within the page eject_column is called once, before
\* the line is drawn, with the index of the column being entered (the one
\* finished plus 1, between 1 and num_columns - 1); it draws its divider,
\* computed from that index, because main() enables the separation line; on
\* an advance that wraps eject_page and start_page are called, in this order,
\* and no eject_column, and showpage is followed by the page start with no
\* divider before it.
C18_EndColumnEnteredIndex ==
  /\ \A i \in DOMAIN calls :
       /\ IsEjectColumn(calls[i]) =>
            /\ i < Len(calls)
            /\ IsDraw(calls[i + 1])
            /\ calls[i + 1].moved
            /\ calls[i].column_idx = calls[i + 1].column_idx
            /\ calls[i].column_idx = ColumnLeftAt(i + 1) + 1
            /\ 1 <= calls[i].column_idx /\ calls[i].column_idx <= page_layout.num_columns - 1
       /\ (IsDraw(calls[i]) /\ calls[i].moved) =>
            IF ColumnLeftAt(i) + 1 = page_layout.num_columns
            THEN LET s == IF IsComposer(calls[i - 1]) THEN i - 2 ELSE i - 1
                 IN  /\ IsStartPage(calls[s])
                     /\ calls[s - 1].fn = "eject_page"
                     /\ calls[i].column_idx = 0
            ELSE IsEjectColumn(calls[i - 1])
       /\ (calls[i].fn = "eject_page" /\ i > 1) => ~IsEjectColumn(calls[i - 1])
  /\ Len(Dividers) = (IF page_layout.do_separation_line THEN Len(EjectColumns) ELSE 0)
  /\ \A i \in DOMAIN Dividers :
       LET idx == divider_idx(page_layout, EjectColumns[i].column_idx)
       IN  Dividers[i].x2 = 2 * (page_layout.left_margin + page_layout.column_width * idx) + total_gutter2(page_layout, idx)
  /\ \A i \in DOMAIN ps_pages_string :
       (ps_pages_string[i].kind = "showpage" /\ i < Len(ps_pages_string)) =>
         /\ IsPage(ps_pages_string[i + 1])
         /\ ~IsDivider(ps_pages_string[i - 1])

\* column 1 was left for column 2 with eject_column(2) and its divider, and
\* the next advance wrapped to the second page
C18_Witness ==
  /\ page_layout.num_columns = 3
  /\ Len(Dividers) = 2
  /\ \E i \in DOMAIN calls : IsEjectColumn(calls[i]) /\ calls[i].column_idx = 2 /\ ColumnLeftAt(i + 1) = 1
  /\ Len(PageStarts) = 2

\* the selected paper as paper_sizes[] holds it, converted to int
PaperWidth == DoubleToInt(paper_sizes[opts.paper_type + 1].width)
PaperHeight == DoubleToInt(paper_sizes[opts.paper_type + 1].height)

\* C20: the bounding box of the document header is the selected paper's
\* (width, height), not swapped, with width <= height, with and without
\* --landscape; the declared pagewidth and pageheight are (height, width) of
\* the paper with --landscape and (width, height) without, and the
\* orientation comment says which.
C20_BoundingBoxUnrotated ==
  \A i \in DOMAIN OUT :
    IsDocumentHeader(OUT[i]) =>
      /\ OUT[i].bb_page_width = PaperWidth
      /\ OUT[i].bb_page_height = PaperHeight
      /\ OUT[i].bb_page_width <= OUT[i].bb_page_height
      /\ OUT[i].pagewidth = (IF opts.do_landscape THEN PaperHeight ELSE PaperWidth)
      /\ OUT[i].pageheight = (IF opts.do_landscape THEN PaperWidth ELSE PaperHeight)
      /\ OUT[i].orientation = (IF opts.do_landscape THEN "Landscape" ELSE "Portrait")

\* a landscape document header was written for US Legal paper
C20_Witness ==
  /\ opts.do_landscape
  /\ opts.paper_type = PAPER_TYPE_US_LEGAL
  /\ Len(OUT) >= 1
  /\ IsDocumentHeader(OUT[1])
  /\ OUT[1].pagewidth > OUT[1].pageheight
  /\ OUT[1].bb_page_width < OUT[1].bb_page_height

\* the line sequence has been handed to the flow engine
Handed == pc \in {"lines", "output_pages", "loop", "returned", "done"}
\* the character of the text that ended paragraph p
Terminator(p) == text[paragraphs[p].text + paragraphs[p].length]
\* the lines of paragraph p, and those of the paragraphs before it
LineCount(p) == paragraphs[p].layout.line_count
RECURSIVE LinesBefore(_)
LinesBefore(p) == IF p = 1 THEN 0 ELSE LinesBefore(p - 1) + LineCount(p - 1)

\* C19: the line sequence is the lines of the first paragraph in their
\* order, then those of the second, and so on, the paragraphs being the
\* stretches of the text between terminators, in text order; a line carries
\* the form feed exactly when it is the last line of its paragraph and the
\* character that ended the paragraph is a form feed.
C19_FormFeedOnLastLine ==
  Handed =>
    /\ Len(pango_lines) = LinesBefore(Len(paragraphs) + 1)
    /\ \A p \in DOMAIN paragraphs :
         /\ paragraphs[p].text = (IF p = 1 THEN 1 ELSE paragraphs[p - 1].text + paragraphs[p - 1].length + 1)
         /\ paragraphs[p].formfeed <=> Terminator(p) = "\f"
         /\ \A i \in 0..(LineCount(p) - 1) :
              /\ pango_lines[LinesBefore(p) + i + 1].pango_line = <<p, i>>
              /\ pango_lines[LinesBefore(p) + i + 1].formfeed <=> (i = LineCount(p) - 1 /\ Terminator(p) = "\f")

\* a paragraph of two lines ended by a form feed was split: its first line is
\* not flagged, its last line is, and the line of the newline paragraph after
\* it is not
C19_Witness ==
  /\ Handed
  /\ \E p \in DOMAIN paragraphs :
       /\ LineCount(p) = 2
       /\ Terminator(p) = "\f"
       /\ ~pango_lines[LinesBefore(p) + 1].formfeed
       /\ pango_lines[LinesBefore(p) + 2].formfeed
       /\ p < Len(paragraphs)
       /\ Terminator(p + 1) = "\n"
       /\ ~pango_lines[LinesBefore(p + 1) + 1].formfeed

(***************************************************************************)
(* C21..C25                                                                *)
(***************************************************************************)
\* output_pages has been entered
Entered == pc \in {"loop", "returned", "done"}

\* C21: from the assignments of main() on, page_layout keeps every field but
\* header_height, which is 0 until output_pages is entered and afterwards the
\* composed height with the header and still 0 without it; footer_height
\* stays 0; without the header the composer is never called; and the loop
\* starts from page 1, column 0, cursor 0 and no previous line.
C21_LayoutFrame ==
  Resolved =>
    /\ [page_layout EXCEPT !.header_height = 0] = main_page_layout(opts, page_layout.column_width)
    /\ opts.num_columns # 0 => [page_layout EXCEPT !.header_height = 0] = resolved_layout(opts)
    /\ page_layout.header_height = (IF Entered /\ opts.do_draw_header THEN HeaderHeight ELSE 0)
    /\ page_layout.footer_height = 0
    /\ ~opts.do_draw_header => \A i \in DOMAIN calls : ~IsComposer(calls[i])
    /\ \A i \in DOMAIN calls : IsComposer(calls[i]) => ~calls[i].is_footer
    /\ (pc = "loop" /\ next_line = 1) =>
         (column_idx = 0 /\ column_y_pos = 0 /\ page_idx = 1 /\ prev_line_link = NULL)

\* with the header on, a landscape page was turned, so the composer ran
\* twice, and output_pages returned
C21_Witness ==
  /\ Returned
  /\ opts.do_draw_header
  /\ opts.do_landscape
  /\ Len(SelectSeq(calls, IsComposer)) = 2
  /\ page_layout.header_height > 0
  /\ page_layout.footer_height = 0

\* C22: once output_pages has returned for an input that is not empty, every
\* page started holds a placed line, and every column before a used column
\* of a page holds a placed line.
C22_NoEmptyPageOrColumn ==
  (Returned /\ pango_lines # <<>>) =>
    /\ \A p \in 1..Len(PageStarts) : \E k \in DOMAIN Draws : Draws[k].page_idx = p
    /\ \A k \in DOMAIN Draws :
         \A c \in 0..(Draws[k].column_idx - 1) :
           \E j \in DOMAIN Draws : PositionOf(j) = <<Draws[k].page_idx, c>>

\* the position of line a is that of line b or comes before it in reading
\* order: an earlier page, or the same page and no later column
InReadingOrder(a, b) ==
  \/ Draws[a].page_idx < Draws[b].page_idx
  \/ Draws[a].page_idx = Draws[b].page_idx /\ Draws[a].column_idx <= Draws[b].column_idx

\* C23: line k is placed at the (page, column) of line k - 1 or after it in
\* reading order; placed in the same column, a line of positive height is
\* given a greater offset than the line before it and is drawn lower on the
\* page.
C23_ReadingOrder ==
  \A k \in DOMAIN Draws :
    k > 1 =>
      /\ InReadingOrder(k - 1, k)
      /\ (PositionOf(k) = PositionOf(k - 1) /\ HeightOf(k) > 0) =>
           /\ Draws[k].column_pos > Draws[k - 1].column_pos
           /\ PlacedLines[k].y_pos < PlacedLines[k - 1].y_pos

\* three lines were placed: the second below the first in one column, the
\* third in a later column
C23_Witness ==
  /\ Len(Draws) = 3
  /\ PositionOf(2) = PositionOf(1)
  /\ Draws[2].column_pos > Draws[1].column_pos
  /\ PositionOf(3) # PositionOf(2)
  /\ InReadingOrder(2, 3)

\* C24: after the last line is placed nothing is advanced: the loop is left
\* at the position of the last line, and what output_pages writes and calls
\* last is the last line and then one showpage; the count returned is the
\* page of the last line, whether or not that line carries the form feed.
C24_TrailingFormFeed ==
  /\ (Running /\ Draws # <<>>) => <<page_idx, column_idx>> = PositionOf(Len(Draws))
  /\ (Returned /\ pango_lines # <<>>) =>
       /\ ps_pages_string[Len(ps_pages_string)].kind = "showpage"
       /\ IsLine(ps_pages_string[Len(ps_pages_string) - 1])
       /\ ps_pages_string[Len(ps_pages_string) - 1].line = Len(pango_lines)
       /\ calls[Len(calls)].fn = "eject_page"
       /\ IsDraw(calls[Len(calls) - 1])
       /\ calls[Len(calls) - 1].line = Len(pango_lines)
       /\ num_pages = calls[Len(calls) - 1].page_idx
       /\ num_pages = Len(PageStarts)

\* on a page of one column the form feed of the first line turned the page,
\* the form feed of the last line did not
C24_Witness ==
  /\ Returned
  /\ page_layout.num_columns = 1
  /\ Len(pango_lines) = 2
  /\ pango_lines[1].formfeed
  /\ pango_lines[2].formfeed
  /\ HeightOf(1) + HeightOf(2) < Capacity
  /\ num_pages = 2
  /\ Draws[2].page_idx = 2

\* C25: the column advances made never outnumber the lines processed, so the
\* count returned for L lines is at least 1 and at most
\* 1 + floor(L / num_columns); for the empty input it is 1, with one page
\* start and one page end.
C25_PageCountBound ==
  /\ Running => (page_idx - 1) * page_layout.num_columns + column_idx <= next_line - 1
  /\ Returned =>
       /\ 1 <= num_pages
       /\ num_pages <= 1 + (Len(pango_lines) \div page_layout.num_columns)
       /\ pango_lines = <<>> =>
            /\ num_pages = 1
            /\ PageMarks = <<[kind |-> "Page", page |-> 1], [kind |-> "showpage"]>>
            /\ PageCalls = <<[fn |-> "start_page", page_idx |-> 1], [fn |-> "eject_page"]>>

\* the bound was met on pages of several columns: every line advanced the
\* column and the last advance turned the page
C25_Witness ==
  /\ Returned
  /\ page_layout.num_columns >= 2
  /\ Len(pango_lines) >= page_layout.num_columns
  /\ num_pages = 1 + (Len(pango_lines) \div page_layout.num_columns)
  /\ num_pages = 2

=============================================================================
